---- MODULE Spec2Model ----
(***************************************************************************)
(* A model of the ODR-DabMux management server (src/ManagementServer.cpp): *)
(* the statistics registry (m_inputStats under m_statsmutex), the          *)
(* InputStat records and their classifier, the accept loop with its        *)
(* restart, and the configuration tree handshake (m_pt, m_pending,         *)
(* m_retrieve_pending under m_configmutex with m_condition).               *)
(***************************************************************************)
EXTENDS Integers, Sequences, FiniteSets, TLC

(***************************************************************************)
(* Bounds of the model.                                                    *)
(***************************************************************************)
\* restart() calls made in one run; restart r starts server thread r
MaxRestarts == 2
\* distinct non-empty configuration documents
NumDocs == 1
\* InputStat objects and input names
NumSamples == 2
NumNames == 2
\* cap on num_underruns / num_overruns between two reads
MaxCount == 1

Threads == 1..MaxRestarts
\* a boost::thread that is not-a-thread; a mutex nobody holds
NoThread == 0
\* the property tree after clear()
EmptyTree == 0
Docs == 0..NumDocs
\* no document was submitted
NoDoc == NumDocs + 1
Samples == 1..NumSamples
Names == 1..NumNames

VARIABLES
    m_listenport,        \* the listen port, 0 or a real port
    m_running, m_fault,  \* ManagementServer flags
    m_thread,            \* the boost::thread handle: NoThread or a server thread
    m_pt,                \* the configuration tree
    m_pending, m_retrieve_pending,
    configmutex,         \* holder of m_configmutex, NoThread when free
    waiters,             \* threads blocked in m_condition.wait
    pc,                  \* position of each server thread
    interruptReq,        \* boost interruption requested for a server thread
    in_message,          \* the command line the thread's connection sent
    response,            \* what the thread wrote (or is to write) to the socket
    rpc,                 \* position of each restart_thread run
    joinTarget,          \* the thread a restart_thread run is joining
    aborted,             \* an exception left a thread: std::terminate
    engine,              \* the engine's position inside update_ptree
    retrieved,           \* result of the engine's last retrieve_new_ptree
    statsmutex,          \* holder of m_statsmutex
    m_inputStats,        \* the registry: name -> InputStat object
    stat,                \* the InputStat objects
    iter,                \* the rest of a snapshot's iteration over the map
    log,                 \* error lines etiLog has received
    now,                 \* time(NULL)
    ghost                \* history kept for the properties only

vars == <<m_listenport, m_running, m_fault, m_thread, m_pt, m_pending,
          m_retrieve_pending, configmutex, waiters, pc, interruptReq,
          in_message, response, rpc, joinTarget, aborted, engine, retrieved,
          statsmutex, m_inputStats, stat, iter, log, now, ghost>>

srvVars == <<m_listenport, m_running, m_fault, m_thread, rpc, joinTarget,
             aborted>>
connVars == <<pc, interruptReq, in_message, response>>
cfgVars == <<m_pt, m_pending, m_retrieve_pending, configmutex, waiters,
             engine, retrieved>>
regVars == <<statsmutex, m_inputStats, stat, iter, now>>

(***************************************************************************)
(* Text on the wire.  A configuration document is opaque: its JSON text is *)
(* the tagged document, any other line fails to parse, and NoLine is a     *)
(* read that returned length 0.                                            *)
(***************************************************************************)
NoLine == <<>>
Garbage == <<"garbage">>
write_json(pt) == <<"json", pt>>
WellFormed(line) == Len(line) = 2 /\ line[1] = "json"
read_json(line) == line[2]
Lines == {write_json(d) : d \in Docs} \cup {Garbage, NoLine}

Response(kind, body) == [kind |-> kind, body |-> body]
NoResponse == Response("none", <<>>)
InvalidCommand == Response("text", <<"Invalid command\n">>)

Commands == {"config", "values", "state", "setptree", "getptree", "foobar", ""}

\* the acceptor lives from its construction to the end of the loop iteration
HandlingPcs == {"config", "values", "values_iter", "values_reset", "setptree",
                "getptree", "gp_wait", "gp_woken", "write"}
AcceptorOpen(t) == pc[t] \in {"waiting"} \cup HandlingPcs
Alive(t) == pc[t] \notin {"none", "exited"}

(***************************************************************************)
(* restart and restart_thread                                              *)
(***************************************************************************)
restart ==
    /\ ~aborted
    /\ \E r \in Threads :
        /\ rpc[r] = "none"
        /\ \A q \in Threads : q < r => rpc[q] # "none"
        /\ rpc' = [rpc EXCEPT ![r] = "start"]
    /\ UNCHANGED <<m_listenport, m_running, m_fault, m_thread, joinTarget,
                   aborted, cfgVars, regVars, pc, interruptReq, in_message,
                   response, log, ghost>>

\* m_running = false; if (m_listenport) ...
restart_thread_stop(r) ==
    /\ rpc[r] = "start"
    /\ m_running' = FALSE
    /\ rpc' = [rpc EXCEPT ![r] = IF m_listenport # 0 THEN "interrupt" ELSE "spawn"]
    /\ UNCHANGED <<m_listenport, m_fault, m_thread, joinTarget, aborted,
                   cfgVars, regVars, pc, interruptReq, in_message, response,
                   log, ghost>>

\* m_thread.interrupt(): a thread blocked in m_condition.wait is woken to
\* throw, any other thread keeps the request until it reaches a wait
restart_thread_interrupt(r) ==
    /\ rpc[r] = "interrupt"
    /\ rpc' = [rpc EXCEPT ![r] = "join"]
    /\ IF m_thread # NoThread /\ Alive(m_thread)
       THEN /\ interruptReq' = [interruptReq EXCEPT ![m_thread] = TRUE]
            /\ IF m_thread \in waiters
               THEN /\ waiters' = waiters \ {m_thread}
                    /\ pc' = [pc EXCEPT ![m_thread] = "gp_woken"]
               ELSE UNCHANGED <<waiters, pc>>
       ELSE UNCHANGED <<interruptReq, waiters, pc>>
    /\ UNCHANGED <<m_listenport, m_running, m_fault, m_thread, joinTarget,
                   aborted, m_pt, m_pending, m_retrieve_pending, configmutex,
                   engine, retrieved, regVars, in_message, response, log,
                   ghost>>

\* m_thread.join() is called on the thread m_thread names at that moment
restart_thread_join(r) ==
    /\ rpc[r] = "join"
    /\ joinTarget' = [joinTarget EXCEPT ![r] = m_thread]
    /\ rpc' = [rpc EXCEPT ![r] = "joining"]
    /\ UNCHANGED <<m_listenport, m_running, m_fault, m_thread, aborted,
                   cfgVars, regVars, connVars, log, ghost>>

\* join() returns once the joined thread has exited (at once for not-a-thread)
restart_thread_joined(r) ==
    /\ rpc[r] = "joining"
    /\ IF joinTarget[r] = NoThread THEN TRUE ELSE pc[joinTarget[r]] = "exited"
    /\ rpc' = [rpc EXCEPT ![r] = "spawn"]
    /\ UNCHANGED <<m_listenport, m_running, m_fault, m_thread, joinTarget,
                   aborted, cfgVars, regVars, connVars, log, ghost>>

\* m_thread = boost::thread(&ManagementServer::serverThread, this)
restart_thread_spawn(r) ==
    /\ rpc[r] = "spawn"
    /\ m_thread' = r
    /\ pc' = [pc EXCEPT ![r] = "start"]
    /\ rpc' = [rpc EXCEPT ![r] = "done"]
    /\ UNCHANGED <<m_listenport, m_running, m_fault, joinTarget, aborted,
                   cfgVars, regVars, interruptReq, in_message, response, log,
                   ghost>>

(***************************************************************************)
(* serverThread                                                            *)
(***************************************************************************)
\* m_running = true; m_fault = false
serverThread_start(t) ==
    /\ pc[t] = "start"
    /\ m_running' = TRUE
    /\ m_fault' = FALSE
    /\ pc' = [pc EXCEPT ![t] = "loop"]
    /\ UNCHANGED <<m_listenport, m_thread, rpc, joinTarget, aborted, cfgVars,
                   regVars, interruptReq, in_message, response, log, ghost>>

\* while (m_running) ... m_fault = true
serverThread_loop(t) ==
    /\ pc[t] = "loop"
    /\ IF m_running
       THEN /\ pc' = [pc EXCEPT ![t] = "bind"]
            /\ UNCHANGED m_fault
       ELSE /\ pc' = [pc EXCEPT ![t] = "exited"]
            /\ m_fault' = TRUE
    /\ UNCHANGED <<m_listenport, m_running, m_thread, rpc, joinTarget,
                   aborted, cfgVars, regVars, interruptReq, in_message,
                   response, log, ghost>>

\* the acceptor is constructed on 127.0.0.1:m_listenport; binding a real
\* port another acceptor holds throws out of the thread function, which
\* terminates the process and every thread with it
serverThread_bind(t) ==
    /\ pc[t] = "bind"
    /\ IF m_listenport # 0 /\ \E u \in Threads \ {t} : AcceptorOpen(u)
       THEN /\ aborted' = TRUE
            /\ pc' = [u \in Threads |-> "exited"]
            /\ rpc' = [r \in Threads |-> "done"]
       ELSE /\ pc' = [pc EXCEPT ![t] = "waiting"]
            /\ UNCHANGED <<aborted, rpc>>
    /\ UNCHANGED <<m_listenport, m_running, m_fault, m_thread,
                   joinTarget, cfgVars, regVars, interruptReq, in_message,
                   response, log, ghost>>

(***************************************************************************)
(* handle_accept                                                           *)
(***************************************************************************)
\* if (boost_error) { log; return; }
handle_accept_error(t) ==
    /\ pc[t] = "waiting"
    /\ pc' = [pc EXCEPT ![t] = "loop"]
    /\ UNCHANGED <<srvVars, cfgVars, regVars, interruptReq, in_message,
                   response, log, ghost>>

\* the welcome line is written, one line is read (cmd = "" when the read
\* failed) and dispatched
HandleAcceptPc(cmd) ==
    IF cmd \in {"config", "values", "state", "setptree", "getptree"}
    THEN cmd ELSE "write"

handle_accept(t, cmd) ==
    /\ pc[t] = "waiting"
    /\ in_message' = [in_message EXCEPT ![t] = cmd]
    /\ pc' = [pc EXCEPT ![t] = IF cmd = "state" THEN "values"
                                ELSE HandleAcceptPc(cmd)]
    /\ response' = [response EXCEPT ![t] =
            IF HandleAcceptPc(cmd) = "write" THEN InvalidCommand ELSE NoResponse]
    /\ ghost' = [ghost EXCEPT !.rt[t] =
            IF cmd = "getptree" THEN ghost.lastSet ELSE NoDoc]
    /\ UNCHANGED <<srvVars, cfgVars, regVars, interruptReq, log>>

\* the response is written, the handler returns (its locks are released, its
\* buffers destroyed) and io_service.run() returns
handle_accept_write(t) ==
    /\ pc[t] = "write"
    /\ pc' = [pc EXCEPT ![t] = "loop"]
    /\ configmutex' = IF configmutex = t THEN NoThread ELSE configmutex
    /\ in_message' = [in_message EXCEPT ![t] = ""]
    /\ response' = [response EXCEPT ![t] = NoResponse]
    /\ UNCHANGED <<srvVars, m_pt, m_pending, m_retrieve_pending, waiters,
                   engine, retrieved, regVars, interruptReq, log, ghost>>

\* setptree: if (length > 0) { lock; m_pt.clear(); read_json(jsonbuffer, m_pt); }
\* the tree the locked block leaves behind: read_json throws on a line that
\* does not parse, after the clear
SetptreeTree(tree, line) ==
    IF WellFormed(line) THEN read_json(line) ELSE EmptyTree

\* a setptree branch that announces its document to the engine
SetptreeRetrievePending_set(flag, line) == TRUE

\* the flag after the setptree branch: the branch never assigns it
SetptreeRetrievePending(flag, line) == flag

\* a handler without the catch: the exception ends the thread function
CatchPc_uncaught == "exited"

\* catch (std::exception& e) { log }: the handler returns normally
CatchPc == "loop"

handle_setptree(t, line) ==
    /\ pc[t] = "setptree"
    /\ pc' = [pc EXCEPT ![t] =
            IF Len(line) > 0 /\ ~WellFormed(line) THEN CatchPc ELSE "loop"]
    /\ in_message' = [in_message EXCEPT ![t] = ""]
    /\ IF Len(line) > 0
       THEN /\ configmutex = NoThread
            /\ m_pt' = SetptreeTree(m_pt, line)
            /\ m_retrieve_pending' = SetptreeRetrievePending(m_retrieve_pending, line)
            /\ log' = IF WellFormed(line) THEN log ELSE "exception"
            /\ ghost' = [ghost EXCEPT
                    !.lastSet = IF WellFormed(line) THEN read_json(line) ELSE NoDoc,
                    !.rt = [u \in Threads |-> NoDoc],
                    !.fromEngine = {}]
       ELSE UNCHANGED <<m_pt, m_retrieve_pending, log, ghost>>
    /\ UNCHANGED <<srvVars, m_pending, configmutex, waiters, engine,
                   retrieved, regVars, interruptReq, response>>

\* while (m_pending && !m_retrieve_pending) m_condition.wait(lock)
GetptreeBlocks(pending, retrieve_pending) == pending /\ ~retrieve_pending

\* m_condition.wait is an interruption point: with an interruption requested
\* it throws boost::thread_interrupted, which catch (std::exception&) does
\* not catch, so the thread function ends; otherwise the thread sleeps with
\* the mutex released.  Without a wait the tree is serialized, lock held.
GetptreeStep(t, pending) ==
    IF GetptreeBlocks(pending, m_retrieve_pending)
    THEN IF interruptReq[t]
         THEN /\ pc' = [pc EXCEPT ![t] = "exited"]
              /\ interruptReq' = [interruptReq EXCEPT ![t] = FALSE]
              /\ configmutex' = NoThread
              /\ UNCHANGED <<waiters, response>>
         ELSE /\ pc' = [pc EXCEPT ![t] = "gp_wait"]
              /\ waiters' = waiters \cup {t}
              /\ configmutex' = NoThread
              /\ UNCHANGED <<interruptReq, response>>
    ELSE /\ pc' = [pc EXCEPT ![t] = "write"]
         /\ response' = [response EXCEPT ![t] = Response("json", write_json(m_pt))]
         /\ configmutex' = t
         /\ UNCHANGED <<interruptReq, waiters>>

\* getptree: lock; m_pending = true; first evaluation of the loop
handle_getptree(t) ==
    /\ pc[t] = "getptree"
    /\ configmutex = NoThread
    /\ m_pending' = TRUE
    /\ GetptreeStep(t, TRUE)
    /\ ghost' = [ghost EXCEPT !.fromEngine = @ \ {t}]
    /\ UNCHANGED <<srvVars, m_pt, m_retrieve_pending, engine, retrieved,
                   regVars, in_message, log>>

\* wait() returns with the mutex re-acquired: the interruption point, then
\* the loop condition again
handle_getptree_wake(t) ==
    /\ pc[t] = "gp_woken"
    /\ configmutex = NoThread
    /\ IF interruptReq[t]
       THEN /\ pc' = [pc EXCEPT ![t] = "exited"]
            /\ interruptReq' = [interruptReq EXCEPT ![t] = FALSE]
            /\ UNCHANGED <<configmutex, waiters, response>>
       ELSE GetptreeStep(t, m_pending)
    /\ UNCHANGED <<srvVars, m_pt, m_pending, m_retrieve_pending, engine,
                   retrieved, regVars, in_message, log, ghost>>

\* a condition variable may wake a waiter that nobody notified
spurious_wakeup(t) ==
    /\ pc[t] = "gp_wait"
    /\ t \in waiters
    /\ waiters' = waiters \ {t}
    /\ pc' = [pc EXCEPT ![t] = "gp_woken"]
    /\ UNCHANGED <<srvVars, m_pt, m_pending, m_retrieve_pending, configmutex,
                   engine, retrieved, regVars, interruptReq, in_message,
                   response, log, ghost>>

\* a notification that wakes nobody
notify_one_lost(w) == UNCHANGED <<waiters, pc>>

\* m_condition.notify_one(): w is the waiter woken, NoThread when none waits
NotifyChoices == IF waiters = {} THEN {NoThread} ELSE waiters
notify_one(w) ==
    IF w = NoThread
    THEN UNCHANGED <<waiters, pc>>
    ELSE /\ waiters' = waiters \ {w}
         /\ pc' = [pc EXCEPT ![w] = "gp_woken"]

EngineQuiet == [ghost EXCEPT !.lastSet = NoDoc, !.rt = [u \in Threads |-> NoDoc]]

(***************************************************************************)
(* retrieve_new_ptree and update_ptree, called by the engine               *)
(***************************************************************************)
retrieve_new_ptree ==
    /\ ~aborted
    /\ configmutex = NoThread
    /\ engine.pc # "lock"
    /\ IF m_retrieve_pending
       THEN /\ retrieved' = [ok |-> TRUE, pt |-> m_pt]
            /\ m_retrieve_pending' = FALSE
            /\ \E w \in NotifyChoices : notify_one(w)
       ELSE /\ retrieved' = [ok |-> FALSE, pt |-> retrieved.pt]
            /\ UNCHANGED <<m_retrieve_pending, waiters, pc>>
    /\ ghost' = EngineQuiet
    /\ UNCHANGED <<srvVars, m_pt, m_pending, configmutex, engine, regVars,
                   interruptReq, in_message, response, log>>

\* an update_ptree without the m_running test
UpdatePtreeEnters_always(running) == TRUE

\* if (m_running) { ... }: m_running is read before the mutex is taken
UpdatePtreeEnters(running) == running

update_ptree_call(pt) ==
    /\ ~aborted
    /\ engine.pc # "lock"
    /\ engine' = [pc |-> IF UpdatePtreeEnters(m_running) THEN "lock" ELSE "returned",
                  pt |-> pt]
    /\ ghost' = EngineQuiet
    /\ UNCHANGED <<srvVars, m_pt, m_pending, m_retrieve_pending, configmutex,
                   waiters, retrieved, regVars, connVars, log>>

\* the tree and the flag the locked block of update_ptree leaves behind
UpdatePtreeTree(tree, pt) == pt
UpdatePtreePending(pending) == FALSE

\* lock; m_pt = pt; m_pending = false; m_condition.notify_one()
update_ptree_locked ==
    /\ ~aborted
    /\ engine.pc = "lock"
    /\ configmutex = NoThread
    /\ m_pt' = UpdatePtreeTree(m_pt, engine.pt)
    /\ m_pending' = UpdatePtreePending(m_pending)
    /\ \E w \in NotifyChoices : notify_one(w)
    /\ engine' = [engine EXCEPT !.pc = "returned"]
    /\ ghost' = [ghost EXCEPT !.fromEngine =
            {t \in Threads : pc[t] \in {"gp_wait", "gp_woken"}}]
    /\ UNCHANGED <<srvVars, m_retrieve_pending, configmutex, retrieved,
                   regVars, interruptReq, in_message, response, log>>

(***************************************************************************)
(* InputStat                                                               *)
(***************************************************************************)
int16_max == 32767
MIN_FILL_BUFFER_UNDEF == -1
\* the classifier's thresholds are macros whose values the translation unit
\* takes from its header: the model treats them as parameters
INPUT_NODATA_TIMEOUT == 2
INPUT_COUNTER_RESET_TIME == 1
INPUT_UNSTABLE_THRESHOLD == 2
INPUT_AUDIO_LEVEL_SILENCE_COUNT == 1

PeakLevels == {int16_max}
FillLevels == {1}
\* glitch and silence counts on both sides of their thresholds
CounterValues == {0, INPUT_UNSTABLE_THRESHOLD - 1, INPUT_UNSTABLE_THRESHOLD,
                  INPUT_AUDIO_LEVEL_SILENCE_COUNT + 1}
\* the instants the classifier is exercised at: around both time windows
TimePoints == {0, 1, INPUT_NODATA_TIMEOUT + 1, 60 * INPUT_COUNTER_RESET_TIME + 1}

\* the producer thread of InputStat s, as a holder of mutexes
Producer(s) == MaxRestarts + s

\* the counters a read resets
ResetValues ==
    [min_fill_buffer |-> MIN_FILL_BUFFER_UNDEF, max_fill_buffer |-> 0,
     peak_left |-> 0, peak_right |-> 0, num_underruns |-> 0, num_overruns |-> 0]

\* an object that does not exist (not yet constructed, or destroyed)
\* m_mutex is the holder of the object's own mutex: NoThread, a serving
\* thread, or the object's producer
NoStat ==
    [alive |-> FALSE, m_name |-> 0, registered |-> FALSE, m_mutex |-> NoThread,
     m_time_last_event |-> 0, m_time_last_buffer_nonempty |-> 0,
     m_buffer_empty |-> TRUE, m_glitch_counter |-> 0, m_silence_counter |-> 0]
    @@ ResetValues

\* InputStat::InputStat(name)
NewStat(name, time) ==
    [NoStat EXCEPT !.alive = TRUE, !.m_name = name, !.m_time_last_event = time]

\* InputStat::reset()
reset(st) ==
    [st EXCEPT !.min_fill_buffer = MIN_FILL_BUFFER_UNDEF, !.max_fill_buffer = 0,
               !.peak_left = 0, !.peak_right = 0,
               !.num_underruns = 0, !.num_overruns = 0]

\* round(20*log10(peak / int16_max)) at the peaks the model uses
RoundedDb(peak) ==
    CASE peak = int16_max -> 0
      [] peak = 16384 -> -6
      [] peak = 3277 -> -20
      [] peak = 1 -> -90

\* peak ? round(20*log10((double)peak / int16_max)) : -90
PeakDb(peak) == IF peak # 0 THEN RoundedDb(peak) ELSE -90

\* InputStat::encodeValuesJSON
encodeValuesJSON(st) ==
    [min_fill |-> st.min_fill_buffer, max_fill |-> st.max_fill_buffer,
     peak_left |-> PeakDb(st.peak_left), peak_right |-> PeakDb(st.peak_right),
     num_underruns |-> st.num_underruns, num_overruns |-> st.num_overruns]

\* a decay test that always clears the counter
DecayedGlitchCounter_always(st, time) == 0

\* InputStat::determineState: the glitch counter after the decay test
DecayedGlitchCounter(st, time) ==
    IF time - st.m_time_last_event > 60 * INPUT_COUNTER_RESET_TIME
    THEN 0 ELSE st.m_glitch_counter

\* a state calculation that looks at the glitch counter first
determineState_glitch_first(st, time) ==
    IF DecayedGlitchCounter(st, time) >= INPUT_UNSTABLE_THRESHOLD
    THEN "Unstable"
    ELSE IF st.m_buffer_empty
            /\ time - st.m_time_last_buffer_nonempty > INPUT_NODATA_TIMEOUT
    THEN "NoData"
    ELSE IF st.m_silence_counter > INPUT_AUDIO_LEVEL_SILENCE_COUNT
    THEN "Silence"
    ELSE "Streaming"

\* InputStat::determineState: the state calculation
determineState(st, time) ==
    IF st.m_buffer_empty
       /\ time - st.m_time_last_buffer_nonempty > INPUT_NODATA_TIMEOUT
    THEN "NoData"
    ELSE IF DecayedGlitchCounter(st, time) >= INPUT_UNSTABLE_THRESHOLD
    THEN "Unstable"
    ELSE IF st.m_silence_counter > INPUT_AUDIO_LEVEL_SILENCE_COUNT
    THEN "Silence"
    ELSE "Streaming"

\* InputStat::encodeStateJSON: the label written for a state
StateLabel(state) ==
    CASE state = "NoData" -> "NoData"
      [] state = "Unstable" -> "Unstable"
      [] state = "Silence" -> "Silent"
      [] state = "Streaming" -> "Streaming"
      [] OTHER -> "Unknown"

(***************************************************************************)
(* The registry                                                            *)
(***************************************************************************)
\* a registerInput without the duplicate test: the new object takes the id
registerInput_overwrite(map, id, is) ==
    [k \in DOMAIN map \cup {id} |-> IF k = id THEN is ELSE map[k]]

\* ManagementServer::registerInput, the map it leaves behind
registerInput(map, id, is) ==
    IF id \in DOMAIN map THEN map ELSE map @@ (id :> is)

\* an unregisterInput that erases nothing
unregisterInput_keep(map, id) == map

\* ManagementServer::unregisterInput, the map it leaves behind
unregisterInput(map, id) ==
    IF id \in DOMAIN map THEN [k \in DOMAIN map \ {id} |-> map[k]] ELSE map

\* std::map iterates its keys in ascending order
RECURSIVE KeysInOrder(_)
KeysInOrder(keys) ==
    IF keys = {} THEN <<>>
    ELSE LET k == CHOOSE x \in keys : \A y \in keys : x <= y
         IN <<k>> \o KeysInOrder(keys \ {k})

\* ManagementServer::getStatConfigJSON: the ids written, in order
getStatConfigJSON(map) == KeysInOrder(DOMAIN map)

\* a producer constructs an InputStat
InputStat_construct(s, name) ==
    /\ ~stat[s].alive
    /\ stat' = [stat EXCEPT ![s] = NewStat(name, now)]
    /\ UNCHANGED <<srvVars, cfgVars, connVars, statsmutex, m_inputStats,
                   iter, now, log, ghost>>

\* InputStat::registerAtServer: get_mgmt_server().registerInput(this),
\* called once by the producer after construction
registerAtServer(s) ==
    /\ stat[s].alive /\ ~stat[s].registered
    /\ stat[s].m_mutex # Producer(s)
    /\ statsmutex = NoThread
    /\ m_inputStats' = registerInput(m_inputStats, stat[s].m_name, s)
    /\ log' = IF stat[s].m_name \in DOMAIN m_inputStats
              THEN "double_registration" ELSE log
    /\ stat' = [stat EXCEPT ![s].registered = TRUE]
    /\ ghost' = [ghost EXCEPT !.live =
            IF stat[s].m_name \in DOMAIN @ THEN @ ELSE @ @@ (stat[s].m_name :> s)]
    /\ UNCHANGED <<srvVars, cfgVars, connVars, statsmutex, iter, now>>

\* InputStat::~InputStat: get_mgmt_server().unregisterInput(m_name), then
\* the object is gone
InputStat_destroy(s) ==
    /\ stat[s].alive
    /\ stat[s].m_mutex # Producer(s)
    /\ statsmutex = NoThread
    /\ m_inputStats' = unregisterInput(m_inputStats, stat[s].m_name)
    /\ stat' = [stat EXCEPT ![s] = NoStat]
    /\ ghost' = [ghost EXCEPT !.live =
            [k \in DOMAIN @ \ {stat[s].m_name} |-> @[k]]]
    /\ UNCHANGED <<srvVars, cfgVars, connVars, statsmutex, iter, now, log>>

\* the producer's counter updates, each under the object's own mutex
Min(a, b) == IF a < b THEN a ELSE b
Max(a, b) == IF a > b THEN a ELSE b
Updated(s, st) ==
    /\ stat[s].alive /\ stat[s].registered
    /\ stat[s].m_mutex = NoThread
    /\ st # stat[s]
    /\ stat' = [stat EXCEPT ![s] = st]
    /\ ghost' = [ghost EXCEPT !.quiet = 0]
    /\ UNCHANGED <<srvVars, cfgVars, connVars, statsmutex, m_inputStats,
                   iter, now, log>>

notifyBuffer(s, bufsize) ==
    Updated(s, [stat[s] EXCEPT
        !.max_fill_buffer = Max(@, bufsize),
        !.min_fill_buffer = IF @ = MIN_FILL_BUFFER_UNDEF THEN bufsize
                            ELSE Min(@, bufsize)])

notifyPeakLevels(s, left, right) ==
    Updated(s, [stat[s] EXCEPT !.peak_left = Max(@, left),
                               !.peak_right = Max(@, right)])

notifyUnderrun(s) ==
    /\ stat[s].num_underruns < MaxCount
    /\ Updated(s, [stat[s] EXCEPT !.num_underruns = @ + 1])

notifyOverrun(s) ==
    /\ stat[s].num_overruns < MaxCount
    /\ Updated(s, [stat[s] EXCEPT !.num_overruns = @ + 1])

\* the same update in two steps: the producer takes the object's mutex ...
producer_lock(s) ==
    /\ stat[s].alive /\ stat[s].registered
    /\ stat[s].m_mutex = NoThread
    /\ stat' = [stat EXCEPT ![s].m_mutex = Producer(s)]
    /\ UNCHANGED <<srvVars, cfgVars, connVars, statsmutex, m_inputStats,
                   iter, now, log, ghost>>

\* ... counts an underrun under it and releases it
producer_unlock(s) ==
    /\ stat[s].m_mutex = Producer(s)
    /\ stat' = [stat EXCEPT ![s].num_underruns = Min(@ + 1, MaxCount),
                            ![s].m_mutex = NoThread]
    /\ ghost' = [ghost EXCEPT !.quiet = 0]
    /\ UNCHANGED <<srvVars, cfgVars, connVars, statsmutex, m_inputStats,
                   iter, now, log>>

(***************************************************************************)
(* The snapshots the serving thread takes                                  *)
(***************************************************************************)
\* config: getStatConfigJSON under m_statsmutex
handle_config(t) ==
    /\ pc[t] = "config"
    /\ statsmutex = NoThread
    /\ response' = [response EXCEPT ![t] =
            Response("config", getStatConfigJSON(m_inputStats))]
    /\ pc' = [pc EXCEPT ![t] = "write"]
    /\ UNCHANGED <<srvVars, cfgVars, regVars, interruptReq, in_message, log,
                   ghost>>

\* getValuesJSON / getStateJSON: the lock is taken and the iteration starts
snapshot_lock(t) ==
    /\ pc[t] = "values"
    /\ statsmutex = NoThread
    /\ statsmutex' = t
    /\ iter' = [iter EXCEPT ![t] = KeysInOrder(DOMAIN m_inputStats)]
    /\ response' = [response EXCEPT ![t] = Response(in_message[t], <<>>)]
    /\ pc' = [pc EXCEPT ![t] = "values_iter"]
    /\ ghost' = [ghost EXCEPT !.quiet =
            IF in_message[t] = "values" THEN Min(@ + 1, 2) ELSE @]
    /\ UNCHANGED <<srvVars, cfgVars, m_inputStats, stat, now, interruptReq,
                   in_message, log>>

\* ss << stats->encodeValuesJSON()   or   ss << stats->encodeStateJSON()
SnapshotEntry(cmd, st, time) ==
    IF cmd = "values" THEN encodeValuesJSON(st)
    ELSE [state |-> StateLabel(determineState(st, time))]

\* a scoped_lock that is still held after its scope
ScopedLockReleased_leaked(holder) == holder

\* boost::mutex::scoped_lock lock(m_mutex) goes out of scope at the return of
\* encodeValuesJSON / determineState: the holder of m_mutex afterwards
ScopedLockReleased(holder) == NoThread

\* boost::mutex::scoped_lock lock(m_mutex) inside encodeValuesJSON or
\* determineState, m_statsmutex held: the thread has the entry's mutex
encode_lock(t) ==
    /\ pc[t] = "values_iter"
    /\ iter[t] # <<>>
    /\ LET s == m_inputStats[Head(iter[t])]
       IN /\ stat[s].m_mutex = NoThread
          /\ stat' = [stat EXCEPT ![s].m_mutex = t]
    /\ UNCHANGED <<srvVars, cfgVars, connVars, statsmutex, m_inputStats, iter,
                   now, log, ghost>>

\* the entry is encoded under its mutex (taken in this step unless
\* encode_lock took it) and the mutex released
snapshot_encode(t) ==
    /\ pc[t] = "values_iter"
    /\ iter[t] # <<>>
    /\ LET id == Head(iter[t])
           s == m_inputStats[id]
       IN /\ stat[s].m_mutex \in {NoThread, t}
          /\ response' = [response EXCEPT ![t].body =
                  Append(@, <<id, SnapshotEntry(in_message[t], stat[s], now)>>)]
          /\ stat' = [stat EXCEPT
                  ![s].m_mutex = ScopedLockReleased(t),
                  ![s].m_glitch_counter =
                      IF in_message[t] = "values" THEN @
                      ELSE DecayedGlitchCounter(stat[s], now)]
    /\ pc' = [pc EXCEPT ![t] = "values_reset"]
    /\ UNCHANGED <<srvVars, cfgVars, statsmutex, m_inputStats, iter, now,
                   interruptReq, in_message, log, ghost>>

\* a snapshot loop without the reset call
ResetAfterRead_skipped(st) == st

\* stats->reset(), then the loop moves to the next entry
ResetAfterRead(st) == reset(st)

snapshot_reset(t) ==
    /\ pc[t] = "values_reset"
    /\ LET s == m_inputStats[Head(iter[t])]
       IN /\ stat[s].m_mutex = NoThread
          /\ stat' = [stat EXCEPT ![s] = ResetAfterRead(stat[s])]
    /\ iter' = [iter EXCEPT ![t] = Tail(@)]
    /\ pc' = [pc EXCEPT ![t] = "values_iter"]
    /\ UNCHANGED <<srvVars, cfgVars, statsmutex, m_inputStats, now,
                   interruptReq, in_message, response, log, ghost>>

\* the loop is over: the lock is released and the text returned
snapshot_unlock(t) ==
    /\ pc[t] = "values_iter"
    /\ iter[t] = <<>>
    /\ statsmutex' = NoThread
    /\ pc' = [pc EXCEPT ![t] = "write"]
    /\ UNCHANGED <<srvVars, cfgVars, m_inputStats, stat, iter, now,
                   interruptReq, in_message, response, log, ghost>>

\* time(NULL) moves on
Tick ==
    /\ \E time \in TimePoints :
        /\ time > now
        /\ \A x \in TimePoints : ~(now < x /\ x < time)
        /\ now' = time
    /\ UNCHANGED <<srvVars, cfgVars, connVars, statsmutex, m_inputStats,
                   stat, iter, log, ghost>>

(***************************************************************************)
(* Specifications                                                          *)
(***************************************************************************)
\* m_listenport: 0 as the static object has it until a port is set, on
\* which an acceptor binds a port of the system's choice, or a real port
ListenPorts == {0, 1}

\* history for the properties: lastSet, the document of the last setptree
\* with no engine call since; rt[t], lastSet as it was when t's getptree was
\* accepted; quiet, the values snapshots begun since the last producer
\* update; live, each id registered and not yet unregistered, with the
\* object whose registration was the first; fromEngine, the threads whose
\* getptree set m_pending before update_ptree stored the tree m_pt now holds
NoGhost == [lastSet |-> NoDoc, rt |-> [t \in Threads |-> NoDoc],
            quiet |-> 0, live |-> <<>>, fromEngine |-> {}]

\* the configuration handshake and the engine after construction
BridgeInit ==
    /\ m_pt = EmptyTree
    /\ m_pending = FALSE /\ m_retrieve_pending = FALSE
    /\ configmutex = NoThread
    /\ waiters = {}
    /\ engine = [pc |-> "idle", pt |-> EmptyTree]
    /\ retrieved = [ok |-> FALSE, pt |-> EmptyTree]

\* no connection has been served yet
ConnInit ==
    /\ interruptReq = [t \in Threads |-> FALSE]
    /\ in_message = [t \in Threads |-> ""]
    /\ response = [t \in Threads |-> NoResponse]
    /\ iter = [t \in Threads |-> <<>>]
    /\ joinTarget = [t \in Threads |-> NoThread]
    /\ aborted = FALSE
    /\ statsmutex = NoThread
    /\ log = ""

\* the server object after construction: no thread has been started
ServerDown ==
    /\ m_listenport \in ListenPorts
    /\ m_running = FALSE /\ m_fault = FALSE
    /\ m_thread = NoThread
    /\ pc = [t \in Threads |-> "none"]
    /\ rpc = [t \in Threads |-> "none"]

\* one accept loop is up and waits for a connection
ServerUp ==
    /\ m_listenport = 1
    /\ m_running = TRUE /\ m_fault = FALSE
    /\ m_thread = 1
    /\ pc = [t \in Threads |-> IF t = 1 THEN "waiting" ELSE "none"]
    /\ rpc = [t \in Threads |-> IF t = 1 THEN "done" ELSE "none"]

\* nothing is registered
RegistryEmpty ==
    /\ m_inputStats = <<>>
    /\ stat = [s \in Samples |-> NoStat]
    /\ now = 0
    /\ ghost = NoGhost

Init == ServerDown /\ BridgeInit /\ ConnInit /\ RegistryEmpty

\* the accept loop, the configuration handshake and the restart
Next ==
    \/ restart
    \/ \E r \in Threads : restart_thread_stop(r)
    \/ \E r \in Threads : restart_thread_interrupt(r)
    \/ \E r \in Threads : restart_thread_join(r)
    \/ \E r \in Threads : restart_thread_joined(r)
    \/ \E r \in Threads : restart_thread_spawn(r)
    \/ \E t \in Threads : serverThread_start(t)
    \/ \E t \in Threads : serverThread_loop(t)
    \/ \E t \in Threads : serverThread_bind(t)
    \/ \E t \in Threads : handle_accept_error(t)
    \/ \E t \in Threads, cmd \in Commands : handle_accept(t, cmd)
    \/ \E t \in Threads : handle_accept_write(t)
    \/ \E t \in Threads, line \in Lines : handle_setptree(t, line)
    \/ \E t \in Threads : handle_getptree(t)
    \/ \E t \in Threads : handle_getptree_wake(t)
    \/ \E t \in Threads : spurious_wakeup(t)
    \/ \E t \in Threads : handle_config(t)
    \/ \E t \in Threads : snapshot_lock(t)
    \/ \E t \in Threads : snapshot_unlock(t)
    \/ retrieve_new_ptree
    \/ \E pt \in Docs : update_ptree_call(pt)
    \/ update_ptree_locked

Spec == Init /\ [][Next]_vars

\* one accept loop serving connections, the engine publishing and polling,
\* and no restart requested
InitLoop == ServerUp /\ BridgeInit /\ ConnInit /\ RegistryEmpty

NextLoop ==
    \/ \E t \in Threads : serverThread_loop(t)
    \/ \E t \in Threads : serverThread_bind(t)
    \/ \E t \in Threads : handle_accept_error(t)
    \/ \E t \in Threads, cmd \in Commands : handle_accept(t, cmd)
    \/ \E t \in Threads : handle_accept_write(t)
    \/ \E t \in Threads, line \in Lines : handle_setptree(t, line)
    \/ \E t \in Threads : handle_getptree(t)
    \/ \E t \in Threads : handle_getptree_wake(t)
    \/ \E t \in Threads : spurious_wakeup(t)
    \/ \E t \in Threads : handle_config(t)
    \/ \E t \in Threads : snapshot_lock(t)
    \/ \E t \in Threads : snapshot_unlock(t)
    \/ retrieve_new_ptree
    \/ \E pt \in Docs : update_ptree_call(pt)
    \/ update_ptree_locked

SpecLoop == InitLoop /\ [][NextLoop]_vars

\* the same, with a serving thread that is scheduled: a thread that can
\* return from the wait, or write its response and return, eventually does
SpecLoopFair ==
    /\ SpecLoop
    /\ \A t \in Threads : WF_vars(handle_getptree_wake(t))
    /\ \A t \in Threads : WF_vars(handle_accept_write(t))

\* restart requests against an accept loop whose connections all finish:
\* a client connects, sends a line that is no command (or nothing) and is
\* answered
NextRestart ==
    \/ restart
    \/ \E r \in Threads : restart_thread_stop(r)
    \/ \E r \in Threads : restart_thread_interrupt(r)
    \/ \E r \in Threads : restart_thread_join(r)
    \/ \E r \in Threads : restart_thread_joined(r)
    \/ \E r \in Threads : restart_thread_spawn(r)
    \/ \E t \in Threads : serverThread_start(t)
    \/ \E t \in Threads : serverThread_loop(t)
    \/ \E t \in Threads : serverThread_bind(t)
    \/ \E t \in Threads : handle_accept_error(t)
    \/ \E t \in Threads, cmd \in {"foobar", ""} : handle_accept(t, cmd)
    \/ \E t \in Threads : handle_accept_write(t)

\* every thread is scheduled, and clients keep connecting to a loop that
\* waits for them
SpecRestartFair ==
    /\ Init /\ [][NextRestart]_vars
    /\ \A r \in Threads :
        /\ WF_vars(restart_thread_stop(r)) /\ WF_vars(restart_thread_interrupt(r))
        /\ WF_vars(restart_thread_join(r)) /\ WF_vars(restart_thread_joined(r))
        /\ WF_vars(restart_thread_spawn(r))
    /\ \A t \in Threads :
        /\ WF_vars(serverThread_start(t)) /\ WF_vars(serverThread_loop(t))
        /\ WF_vars(serverThread_bind(t)) /\ WF_vars(handle_accept_write(t))
        /\ WF_vars(\E cmd \in {"foobar", ""} : handle_accept(t, cmd))

\* one accept loop serving the registry commands while producers construct,
\* register and destroy their InputStat objects
RegistryCommands == {"config", "values", "state"}

Snapshotting ==
    \/ \E t \in Threads : snapshot_lock(t)
    \/ \E t \in Threads : snapshot_encode(t)
    \/ \E t \in Threads : snapshot_reset(t)
    \/ \E t \in Threads : snapshot_unlock(t)
    \/ \E t \in Threads : handle_accept_write(t)
    \/ \E t \in Threads : serverThread_loop(t)
    \/ \E t \in Threads : serverThread_bind(t)

InitReg == ServerUp /\ BridgeInit /\ ConnInit /\ RegistryEmpty

NextReg ==
    \/ \E s \in Samples, name \in Names : InputStat_construct(s, name)
    \/ \E s \in Samples : registerAtServer(s)
    \/ \E s \in Samples : InputStat_destroy(s)
    \/ \E t \in Threads, cmd \in RegistryCommands : handle_accept(t, cmd)
    \/ \E t \in Threads : handle_config(t)
    \/ Snapshotting

SpecReg == InitReg /\ [][NextReg]_vars

\* the registry holds some inputs; their producers update the counters
\* while values and state snapshots are taken
Registered(names) ==
    /\ m_inputStats = [n \in names |-> n]
    /\ stat = [s \in Samples |->
            IF s \in names
            THEN [NewStat(s, 0) EXCEPT !.registered = TRUE] ELSE NoStat]
    /\ now = 0
    /\ ghost = [NoGhost EXCEPT !.live = [n \in names |-> n]]

InitVal ==
    /\ ServerUp /\ BridgeInit /\ ConnInit
    /\ \E names \in SUBSET (Samples \cap Names) : Registered(names)

NextVal ==
    \/ \E s \in Samples, bufsize \in FillLevels : notifyBuffer(s, bufsize)
    \/ \E s \in Samples, left \in PeakLevels, right \in PeakLevels :
            notifyPeakLevels(s, left, right)
    \/ \E s \in Samples : notifyUnderrun(s)
    \/ \E s \in Samples : notifyOverrun(s)
    \/ \E t \in Threads : handle_accept(t, "values")
    \/ Snapshotting

SpecVal == InitVal /\ [][NextVal]_vars

\* one registered input whose classifier inputs take the values around the
\* thresholds, queried by state snapshots as time passes
ClassifierInputs ==
    [m_buffer_empty : BOOLEAN,
     m_time_last_event : TimePoints,
     m_time_last_buffer_nonempty : TimePoints,
     m_glitch_counter : CounterValues,
     m_silence_counter : CounterValues]

\* the counters a read resets, as the producer may have left them
TransientInputs ==
    [num_underruns : {0, MaxCount}, peak_left : {0} \cup PeakLevels]

InitState ==
    /\ ServerUp /\ BridgeInit /\ ConnInit
    /\ m_inputStats = (1 :> 1)
    /\ now \in TimePoints
    /\ \E c \in ClassifierInputs, x \in TransientInputs :
        /\ c.m_time_last_event <= now
        /\ c.m_time_last_buffer_nonempty <= now
        /\ stat = [s \in Samples |->
                IF s = 1
                THEN [NewStat(1, 0) EXCEPT
                        !.registered = TRUE,
                        !.m_buffer_empty = c.m_buffer_empty,
                        !.m_time_last_event = c.m_time_last_event,
                        !.m_time_last_buffer_nonempty = c.m_time_last_buffer_nonempty,
                        !.m_glitch_counter = c.m_glitch_counter,
                        !.m_silence_counter = c.m_silence_counter,
                        !.num_underruns = x.num_underruns,
                        !.peak_left = x.peak_left]
                ELSE NoStat]
    /\ ghost = [NoGhost EXCEPT !.live = (1 :> 1)]

NextState ==
    \/ Tick
    \/ \E t \in Threads, cmd \in {"values", "state"} : handle_accept(t, cmd)
    \/ Snapshotting

SpecState == InitState /\ [][NextState]_vars

\* every lock of the file in one run: the accept loop serves every command
\* while the engine publishes and polls and the producers construct,
\* register, update and destroy their InputStat objects
InitLock == ServerUp /\ BridgeInit /\ ConnInit /\ RegistryEmpty

LockCommands == {"config", "values", "state", "setptree", "getptree"}

NextLock ==
    \/ \E s \in Samples \cap Names : InputStat_construct(s, s)
    \/ \E s \in Samples : registerAtServer(s)
    \/ \E s \in Samples : InputStat_destroy(s)
    \/ \E s \in Samples : producer_lock(s)
    \/ \E s \in Samples : producer_unlock(s)
    \/ \E t \in Threads, cmd \in LockCommands : handle_accept(t, cmd)
    \/ \E t \in Threads : handle_accept_write(t)
    \/ \E t \in Threads : serverThread_loop(t)
    \/ \E t \in Threads : serverThread_bind(t)
    \/ \E t \in Threads, line \in Lines : handle_setptree(t, line)
    \/ \E t \in Threads : handle_getptree(t)
    \/ \E t \in Threads : handle_getptree_wake(t)
    \/ \E t \in Threads : spurious_wakeup(t)
    \/ \E t \in Threads : handle_config(t)
    \/ \E t \in Threads : snapshot_lock(t)
    \/ \E t \in Threads : encode_lock(t)
    \/ \E t \in Threads : snapshot_encode(t)
    \/ \E t \in Threads : snapshot_reset(t)
    \/ \E t \in Threads : snapshot_unlock(t)
    \/ retrieve_new_ptree
    \/ \E pt \in Docs : update_ptree_call(pt)
    \/ update_ptree_locked

SpecLock == InitLock /\ [][NextLock]_vars

(***************************************************************************)
(* Properties                                                              *)
(***************************************************************************)
LastEntry(resp) == resp.body[Len(resp.body)]
Range(seq) == {seq[i] : i \in 1..Len(seq)}

\* C1: a registerInput call with an id that is already in the registry
\* changes nothing: the map is as before, the id is still mapped to the
\* object whose registration was the first, and no exception leaves the call
C1_DuplicateRegisterIsNoOp ==
    [][\A s \in Samples :
        (registerAtServer(s) /\ stat[s].m_name \in DOMAIN m_inputStats)
        => /\ m_inputStats' = m_inputStats
           /\ m_inputStats'[stat[s].m_name] = ghost.live[stat[s].m_name]
           /\ ~aborted']_vars

\* a duplicate registration was rejected: the id is in the map, mapped to
\* another object than the live one that asked last
C1_Witness ==
    /\ log = "double_registration"
    /\ \E s \in Samples :
        /\ stat[s].alive /\ stat[s].registered
        /\ stat[s].m_name \in DOMAIN m_inputStats
        /\ m_inputStats[stat[s].m_name] # s

\* C2: the id list getStatConfigJSON returns holds exactly the ids that are
\* registered and not yet unregistered when it takes the registry lock, each
\* once, whatever registerInput / unregisterInput calls came before
C2_ConfigListsRegisteredIds ==
    [][\A t \in Threads :
        handle_config(t)
        => /\ Range(response'[t].body) = DOMAIN ghost.live
           /\ Len(response'[t].body) = Cardinality(DOMAIN ghost.live)]_vars

\* a config response listing two ids is about to be written
C2_Witness ==
    \E t \in Threads :
        /\ pc[t] = "write"
        /\ response[t].kind = "config"
        /\ Len(response[t].body) >= 2

\* C3: a values snapshot begun after an earlier values snapshot, with no
\* producer update since that earlier one began, reports every registered
\* input with both counts 0, both peaks at -90 and the fills at their reset
\* values
C3_SecondValuesReadIsReset ==
    [][\A t \in Threads :
        (snapshot_encode(t) /\ in_message[t] = "values" /\ ghost.quiet = 2)
        => LastEntry(response'[t])[2] =
              [min_fill |-> MIN_FILL_BUFFER_UNDEF, max_fill |-> 0,
               peak_left |-> -90, peak_right |-> -90,
               num_underruns |-> 0, num_overruns |-> 0]]_vars

\* the second of two values snapshots with no update in between is complete
\* and reports two inputs
C3_Witness ==
    \E t \in Threads :
        /\ ghost.quiet = 2
        /\ pc[t] = "write"
        /\ response[t].kind = "values"
        /\ Len(response[t].body) >= 2

\* C4: the state written for an input is NoData exactly when its buffer is
\* empty and has been for longer than the no-data timeout, whatever the
\* glitch and silence counters and the time of the last event
C4_NoDataHasPriority ==
    [][\A t \in Threads :
        (snapshot_encode(t) /\ in_message[t] = "state")
        => LET st == stat[m_inputStats[Head(iter[t])]]
           IN (LastEntry(response'[t])[2].state = "NoData")
              <=> (st.m_buffer_empty
                   /\ now - st.m_time_last_buffer_nonempty > INPUT_NODATA_TIMEOUT)]_vars

\* NoData was written for an input whose glitch and silence counters are
\* both above their thresholds
C4_Witness ==
    \E t \in Threads :
        /\ pc[t] = "values_reset"
        /\ in_message[t] = "state"
        /\ LastEntry(response[t])[2].state = "NoData"
        /\ LET st == stat[m_inputStats[Head(iter[t])]]
           IN /\ st.m_glitch_counter >= INPUT_UNSTABLE_THRESHOLD
              /\ st.m_silence_counter > INPUT_AUDIO_LEVEL_SILENCE_COUNT

\* C5: a well-formed document submitted by setptree is handed to the
\* engine: once the command is processed the tree is that document and
\* m_retrieve_pending is true (so that the next retrieve_new_ptree takes it)
C5_SetptreeHandsDocumentToEngine ==
    [][\A t \in Threads, d \in Docs :
        handle_setptree(t, write_json(d))
        => (m_pt' = d /\ m_retrieve_pending')]_vars

\* C6: a getptree accepted after a setptree of document D, with no engine
\* call since, does not block and answers with D
C6_RoundTripUnderQuiescence ==
    \A t \in Threads :
        ghost.rt[t] # NoDoc
        => /\ pc[t] \notin {"gp_wait", "gp_woken"}
           /\ pc[t] = "write" =>
                /\ response[t].kind = "json"
                /\ response[t].body = write_json(ghost.rt[t])

\* C7: a setptree whose document line does not parse leaves the tree and
\* both flags as they were
C7_MalformedSetptreeKeepsTree ==
    [][\A t \in Threads :
        handle_setptree(t, Garbage)
        => /\ m_pt' = m_pt
           /\ m_pending' = m_pending
           /\ m_retrieve_pending' = m_retrieve_pending]_vars

\* the step on which update_ptree(d) returns
UpdatePtreeReturns(d) ==
    \/ update_ptree_call(d) /\ engine'.pc = "returned"
    \/ update_ptree_locked /\ engine.pt = d

\* C8 as stated: every update_ptree(doc) call, in every server state, has
\* replaced the tree with doc and cleared m_pending when it returns
C8_EveryPublishReplaces ==
    [][\A d \in Docs :
        UpdatePtreeReturns(d) => (m_pt' = d /\ ~m_pending')]_vars

\* C8 as amended: an update_ptree(doc) call that finds m_running true
\* replaces the tree with doc, clears m_pending and wakes one waiter; a call
\* that finds m_running false returns with nothing changed
C8_PublishWhileRunning ==
    [][/\ \A d \in Docs :
            update_ptree_call(d)
            => /\ (engine'.pc = "lock") <=> m_running
               /\ m_pt' = m_pt /\ m_pending' = m_pending /\ waiters' = waiters
       /\ update_ptree_locked
            => /\ m_pt' = engine.pt
               /\ ~m_pending'
               /\ Cardinality(waiters') =
                    IF waiters = {} THEN 0 ELSE Cardinality(waiters) - 1]_vars

\* a publish made while the server runs has replaced the tree and woken a
\* getptree that was waiting
C8_Witness ==
    /\ engine.pc = "returned"
    /\ m_running
    /\ m_pt = engine.pt /\ m_pt # EmptyTree
    /\ ~m_pending
    /\ \E t \in Threads : pc[t] = "gp_woken" /\ ~interruptReq[t]

\* C9: with no restart requested, no connection, failing or not, ends the
\* accept loop: the thread never leaves serverThread, and when a connection
\* is over the loop condition holds and the next acceptor can be bound
C9_LoopSurvivesConnectionFailures ==
    \A t \in Threads :
        pc[t] # "none"
        => /\ pc[t] # "exited"
           /\ ~aborted
           /\ pc[t] = "loop" => m_running
           /\ pc[t] = "bind" => ~\E u \in Threads \ {t} : AcceptorOpen(u)

\* after a setptree whose document did not parse the thread waits for the
\* next connection
C9_Witness ==
    /\ log = "exception"
    /\ \E t \in Threads : pc[t] = "waiting"

\* C10: at most one accept loop runs and at most one connection is being
\* served, whatever restart() requests are made
C10_SingleAcceptLoop ==
    /\ Cardinality({t \in Threads : Alive(t)}) <= 1
    /\ Cardinality({t \in Threads : pc[t] \in HandlingPcs}) <= 1

\* the positions at which a serving thread reads from or writes to the
\* client socket: the welcome and command line, the document line of
\* setptree, and the response
SocketIoPcs == {"waiting", "setptree", "write"}

\* C11: no serving thread holds the registry mutex or the config mutex while
\* it reads from or writes to the client socket
C11_NoLockAcrossSocketIo ==
    \A t \in Threads :
        pc[t] \in SocketIoPcs => (configmutex # t /\ statsmutex # t)

\* C12: a restart never cancels a request in progress; in the case the claim
\* names, a getptree that is blocked in its condition wait when restart() is
\* requested still completes: its thread leaves the wait towards the
\* response, never by ending (the end of the whole process apart)
C12_RestartNeverCancelsRequest ==
    [][\A t \in Threads :
        (pc[t] \in {"gp_wait", "gp_woken"} /\ ~aborted')
        => pc'[t] # "exited"]_vars

\* C13: every id in the registry refers to an InputStat that is alive and
\* carries that name, so the object a values or state snapshot is encoding
\* or resetting has not been destroyed
C13_RegistryEntriesAlive ==
    /\ \A id \in DOMAIN m_inputStats :
            /\ stat[m_inputStats[id]].alive
            /\ stat[m_inputStats[id]].m_name = id
    /\ \A t \in Threads :
            pc[t] = "values_reset" => stat[m_inputStats[Head(iter[t])]].alive

\* a snapshot is at an entry after a rejected duplicate registration and
\* the destruction of an object
C13_Witness ==
    /\ log = "double_registration"
    /\ \E s \in Samples : ~stat[s].alive
    /\ \E t \in Threads : pc[t] = "values_reset"

\* C17: an id stays in the registry, mapped to the object that registered
\* it, until that object itself is destroyed
C17_RegistrationLastsUntilOwnDestruction ==
    [][\A id \in DOMAIN m_inputStats :
        (id \notin DOMAIN m_inputStats' \/ m_inputStats'[id] # m_inputStats[id])
        => ~stat'[m_inputStats[id]].alive]_vars

\* the classifier memory of object s is the same before and after a step
ClassifierMemoryKept(s) ==
    /\ stat'[s].m_glitch_counter = stat[s].m_glitch_counter
    /\ stat'[s].m_silence_counter = stat[s].m_silence_counter
    /\ stat'[s].m_time_last_event = stat[s].m_time_last_event
    /\ stat'[s].m_time_last_buffer_nonempty = stat[s].m_time_last_buffer_nonempty

\* the fields of object s that a read resets
Transients(st) ==
    [min_fill_buffer |-> st.min_fill_buffer, max_fill_buffer |-> st.max_fill_buffer,
     peak_left |-> st.peak_left, peak_right |-> st.peak_right,
     num_underruns |-> st.num_underruns, num_overruns |-> st.num_overruns]

\* C14 as stated: no step of a values or state read changes the glitch
\* counter, the silence counter or either timestamp of any InputStat
C14_ReadKeepsClassifierMemory ==
    [][\A t \in Threads :
        (snapshot_encode(t) \/ snapshot_reset(t))
        => \A s \in Samples : ClassifierMemoryKept(s)]_vars

\* C14 as amended: a read leaves the silence counter and both timestamps of
\* every InputStat unchanged; the glitch counter changes only in a state
\* read of an input whose last event is older than the decay window, and
\* then becomes 0; the reset step sets the six transient fields of the
\* entry read to their reset values and touches nothing else
C14_ReadKeepsClassifierMemoryButDecay ==
    [][\A t \in Threads :
        (snapshot_encode(t) \/ snapshot_reset(t))
        => LET e == m_inputStats[Head(iter[t])]
           IN /\ \A s \in Samples :
                    /\ stat'[s].m_silence_counter = stat[s].m_silence_counter
                    /\ stat'[s].m_time_last_event = stat[s].m_time_last_event
                    /\ stat'[s].m_time_last_buffer_nonempty =
                            stat[s].m_time_last_buffer_nonempty
                    /\ stat'[s].m_glitch_counter # stat[s].m_glitch_counter
                        => /\ s = e /\ pc[t] = "values_iter"
                           /\ in_message[t] = "state"
                           /\ now - stat[s].m_time_last_event
                                > 60 * INPUT_COUNTER_RESET_TIME
                           /\ stat'[s].m_glitch_counter = 0
                    /\ Transients(stat'[s]) # Transients(stat[s])
                        => s = e /\ pc[t] = "values_reset"
              /\ pc[t] = "values_reset" => Transients(stat'[e]) = ResetValues
              /\ (pc[t] = "values_iter" /\ in_message[t] = "state"
                  /\ now - stat[e].m_time_last_event > 60 * INPUT_COUNTER_RESET_TIME)
                 => stat'[e].m_glitch_counter = 0]_vars

\* a state read is complete for an input whose counters were set: the
\* glitch and silence counters and the last-event time are what they were,
\* the transient fields are reset
C14_Witness ==
    \E t \in Threads :
        /\ pc[t] = "write" /\ response[t].kind = "state"
        /\ LastEntry(response[t])[2].state = "Unstable"
        /\ stat[1].m_glitch_counter >= INPUT_UNSTABLE_THRESHOLD
        /\ stat[1].m_silence_counter > INPUT_AUDIO_LEVEL_SILENCE_COUNT
        /\ stat[1].m_time_last_event > 0
        /\ Transients(stat[1]) = ResetValues

\* C18: no producer event is lost by a values snapshot: the underrun and
\* overrun counts the reset step of a values read discards are the counts
\* its encode step has just reported, so every recorded event is reported
\* by exactly one snapshot
C18_NoEventLostByValuesRead ==
    [][\A t \in Threads :
        (snapshot_reset(t) /\ in_message[t] = "values")
        => LET st == stat[m_inputStats[Head(iter[t])]]
               reported == LastEntry(response[t])[2]
           IN /\ st.num_underruns = reported.num_underruns
              /\ st.num_overruns = reported.num_overruns]_vars

Restarted(r) ==
    \E t \in Threads :
        /\ t >= r
        /\ pc[t] \in {"loop", "bind", "waiting"} \cup HandlingPcs
        /\ m_running
        /\ \A u \in Threads \ {t} : ~Alive(u)

\* C16: a restart() request eventually leaves the server with the old
\* accept loop exited and a new one running with m_running true (the end of
\* the whole process apart); in the case checked the listen port is real
\* and every other restart request is over, so that the request interleaves
\* with nothing but the old loop, its startup included
C16_RestartCompletes ==
    \A r \in Threads :
        (/\ rpc[r] = "start" /\ m_listenport # 0
         /\ \A q \in Threads \ {r} : rpc[q] = "done")
        ~> (Restarted(r) \/ aborted)

\* the locks of the file: m_statsmutex, m_configmutex and each object's m_mutex
StatsLock == <<"m_statsmutex", 0>>
ConfigLock == <<"m_configmutex", 0>>
ObjectLock(s) == <<"m_mutex", s>>
NoLock == <<"none", 0>>
Locks == {StatsLock, ConfigLock} \cup {ObjectLock(s) : s \in Samples}

\* the threads that take them: the serving threads and the producers (the
\* engine takes and releases m_configmutex within one step)
LockUsers == Threads \cup {Producer(s) : s \in Samples}

Holder(l) ==
    CASE l = StatsLock -> statsmutex
      [] l = ConfigLock -> configmutex
      [] OTHER -> stat[l[2]].m_mutex

Held(p) == {l \in Locks : Holder(l) = p}

\* the lock the next statement of p acquires, NoLock when it acquires none
Wanted(p) ==
    IF p \notin Threads THEN NoLock
    ELSE CASE pc[p] \in {"config", "values"} -> StatsLock
           [] pc[p] \in {"setptree", "getptree", "gp_woken"} -> ConfigLock
           [] pc[p] = "values_reset" -> ObjectLock(m_inputStats[Head(iter[p])])
           [] pc[p] = "values_iter" /\ iter[p] # <<>>
              /\ stat[m_inputStats[Head(iter[p])]].m_mutex # p ->
                    ObjectLock(m_inputStats[Head(iter[p])])
           [] OTHER -> NoLock

\* p waits for a lock that q holds
WaitsFor(p, q) == Wanted(p) # NoLock /\ Holder(Wanted(p)) = q

\* p reaches q along at most n waits
RECURSIVE WaitChain(_, _, _)
WaitChain(p, q, n) ==
    \/ WaitsFor(p, q)
    \/ /\ n > 1
       /\ \E r \in LockUsers : WaitsFor(p, r) /\ WaitChain(r, q, n - 1)

\* C20: the locks are taken in one order and nobody waits in a circle.  A
\* thread that takes an object's m_mutex holds at most m_statsmutex, a thread
\* that takes m_statsmutex holds no m_mutex (and no lock at all),
\* m_configmutex is never held or taken together with another lock, and no
\* thread waits, through any chain of lock holders, for itself.
C20_LockOrderAcyclic ==
    /\ \A p \in LockUsers :
        /\ Wanted(p)[1] = "m_mutex" => Held(p) \subseteq {StatsLock}
        /\ Wanted(p) = StatsLock => Held(p) = {}
        /\ Wanted(p) = ConfigLock => Held(p) = {}
        /\ ConfigLock \in Held(p) => Held(p) = {ConfigLock}
        /\ Cardinality({l \in Held(p) : l[1] = "m_mutex"}) <= 1
        /\ ~WaitChain(p, p, Cardinality(LockUsers))
    /\ \A s \in Samples :
        stat[s].m_mutex \in Threads => statsmutex = stat[s].m_mutex

\* C20 witness: a snapshot holds m_statsmutex and, inside it, the m_mutex of
\* one object, while the producer of another object holds that object's
\* m_mutex and the engine is about to take m_configmutex in update_ptree
C20_Witness ==
    \E t \in Threads, s \in Samples :
        /\ Held(t) = {StatsLock, ObjectLock(s)}
        /\ \E u \in Samples \ {s} : Held(Producer(u)) = {ObjectLock(u)}
        /\ engine.pc = "lock"
====
